---------------------------- MODULE Spec2Model ----------------------------
(***************************************************************************)
(* Model of the chat service of dailyAI:                                   *)
(*   apps/service/src/chat/chat.service.ts   ChatService.processMessage    *)
(*   apps/service/src/chat/chat.controller.ts ChatController.sendMessage   *)
(*   apps/service/src/chat/dto/send-message.dto.ts SendMessageDto          *)
(*                                                                         *)
(* The database tables written through Prisma are the shared state; every  *)
(* HTTP request is a turn that runs processMessage.  Node runs the code    *)
(* between two awaits atomically, so every await of processMessage is one  *)
(* action and several turns interleave at the awaits.                      *)
(*                                                                         *)
(* Text is a sequence of character codes, so that substring and            *)
(* JSON.stringify are computed and not assumed.                            *)
(*                                                                         *)
(* The chat screen of the mobile app is modelled beside it:                *)
(*   apps/mobile/app/(tabs)/index.tsx        ChatScreen                    *)
(*   apps/mobile/src/api/chat.ts             chatApi.sendMessage           *)
(* Spec runs the service with requests of any client; MobileSpec runs one  *)
(* screen, its speech recognizer and its requests, with processMessage as  *)
(* the screen sees it.                                                     *)
(***************************************************************************)
EXTENDS Integers, Sequences, FiniteSets, TLC

(***************************************************************************)
(* Bounds of the model.                                                    *)
(***************************************************************************)
MaxTurns == 2          \* requests received over a run
MaxInFlight == 2       \* requests being processed at the same time
MaxRows == 2           \* rows in transaction and journal together
MaxRequests == 2       \* calls of chatApi.sendMessage one screen makes
MaxRecordings == 2     \* recordings one screen starts
MaxEnds == 2           \* end events the recognizer sends for one recording
RecursionLimit == 3    \* supersteps one agent.invoke may run.  The
                       \* RunnableConfig of processMessage sets no
                       \* recursionLimit, so the library's default (25)
                       \* applies; the model runs a shorter graph and the
                       \* properties are stated in terms of the limit.

(***************************************************************************)
(* Program constants.                                                      *)
(***************************************************************************)
TitleLen == 20         \* content.substring(0, 20)
MoodMin == 1           \* z.number().min(1)
MoodMax == 10          \* z.number().max(10)

Turns == 1..MaxTurns
Requests == 1..MaxRequests

\* ------------------------------------------------------------------ text
EmptyText == << >>
LongText  == [i \in 1..(TitleLen + 1) |-> 96 + i]      \* 21 characters
Texts == {EmptyText, LongText}

\* A substring that does not cut.
substring_Whole(s, from, to) == s

\* String.prototype.substring(from, to) with 0-based from, exclusive to.
substring(s, from, to) ==
    LET hi == IF to > Len(s) THEN Len(s) ELSE to
    IN  SubSeq(s, from + 1, hi)

\* ------------------------------------------------------------------ ids
UserIds == {"", "u1", "u2"}
NoSessionId == 0       \* dto.sessionId absent (undefined) or ""
UnknownId == 0 - 1     \* an id no chatSession row has

\* ------------------------------------------------------------------ state
VARIABLES
    user,          \* table User: set of ids
    chatSession,   \* table ChatSession: sequence of rows, in creation order
    chatMessage,   \* table ChatMessage: sequence of rows, in creation order
    transaction,   \* table Transaction: sequence of rows, in creation order
    journal,       \* table Journal: sequence of rows, in creation order
    turn,          \* the requests: turn[t] holds the locals of one call of
                   \* processMessage and its position
    screen,        \* the chat screen of the mobile client: its React state
    recognizer,    \* the speech recognizer the screen listens to
    request        \* the calls of chatApi.sendMessage the screen has made

vars == <<user, chatSession, chatMessage, transaction, journal, turn,
          screen, recognizer, request>>

\* The mobile client.
mobile == <<screen, recognizer, request>>

\* ------------------------------------------------------------------ rows
\* Ids are generated by the database (Prisma @default): every new row gets
\* an id no other row of its table has.  A row's id is its position.
NewSessionId == Len(chatSession) + 1

SessionIds == {chatSession[i].id : i \in 1..Len(chatSession)}

\* A lookup that finds nothing.
findUnique_Null(id) == NoSessionId

\* prisma.chatSession.findUnique({ where: { id } }): the row, or null (0).
findUnique(id) ==
    IF id \in SessionIds THEN id ELSE NoSessionId

SessionRow(id) == chatSession[CHOOSE i \in 1..Len(chatSession) : chatSession[i].id = id]

\* ------------------------------------------------------------------ dto
\* class-validator decorators of SendMessageDto.
\* content is a text and userId an id: IsNotEmpty rejects the empty one.
IsNotEmpty(s) == s # EmptyText
IsNotEmptyId(s) == s # ""

\* The dto without the check of content: what a missing decorator does.
ValidDto_NoContentCheck(dto) ==
    IsNotEmptyId(dto.userId)

ValidDto(dto) ==
    /\ IsNotEmpty(dto.content)     \* @IsString() @IsNotEmpty() content
    /\ IsNotEmptyId(dto.userId)    \* @IsString() @IsNotEmpty() userId
                                   \* @IsString() @IsOptional() sessionId

\* The body of a request is checked against the decorators of its dto
\* class before the controller's handler is called.
ValidationPipe(dto) == ValidDto(dto)

NoDto == [content |-> EmptyText, userId |-> "", sessionId |-> NoSessionId]

\* ------------------------------------------------------------------ tools
\* A JavaScript number is modelled in halves: Num(5) is 5, Half(5) is 5.5.
Num(n) == 2 * n
Half(n) == 2 * n + 1

Comma == 44
RECURSIVE join(_)
\* Array.prototype.join(','): the elements separated by commas.
join(tags) ==
    IF tags = << >> THEN << >>
    ELSE IF Len(tags) = 1 THEN tags[1]
    ELSE tags[1] \o <<Comma>> \o join(Tail(tags))

\* A schema whose type is a plain string.
accountingToolSchema_AnyType(args) == TRUE

\* accountingToolSchema: amount z.number(), category z.string(),
\* type z.enum(['EXPENSE', 'INCOME']), description optional.
accountingToolSchema(args) ==
    args.type \in {"EXPENSE", "INCOME"}

\* A schema without the upper limit of moodScore.
journalToolSchema_MinOnly(args) ==
    args.moodScore >= Num(MoodMin)

\* journalToolSchema: content z.string(), moodScore z.number().min(1).max(10),
\* tags z.array(z.string()).
journalToolSchema(args) ==
    /\ args.moodScore >= Num(MoodMin)
    /\ args.moodScore <= Num(MoodMax)

ToolNames == {"record_transaction", "record_journal"}   \* tools = [accountingTool, journalTool]

\* The tool call passes the schema of the tool it names.
ValidCall(call) ==
    /\ call.name \in ToolNames
    /\ call.name = "record_transaction" => accountingToolSchema(call.args)
    /\ call.name = "record_journal" => journalToolSchema(call.args)

\* The tool calls the language model asks for in the runs of the model.
TxFood == [name |-> "record_transaction",
           args |-> [amount |-> Num(20), category |-> <<70>>, type |-> "EXPENSE"]]
JournalFive == [name |-> "record_journal",
                args |-> [content |-> <<100>>, moodScore |-> Num(5), tags |-> << >>]]
JournalEleven == [name |-> "record_journal",
                  args |-> [content |-> <<100>>, moodScore |-> Num(11), tags |-> << >>]]
UnknownTool == [name |-> "send_email", args |-> [to |-> <<120>>]]
TxBadKind == [name |-> "record_transaction",
              args |-> [amount |-> Num(20), category |-> <<70>>, type |-> "TRANSFER"]]
TxNoCategory == [name |-> "record_transaction",
                 args |-> [amount |-> Num(20), category |-> << >>, type |-> "INCOME"]]
JournalZero == [name |-> "record_journal",
                args |-> [content |-> <<100>>, moodScore |-> Num(0), tags |-> << >>]]
JournalHalf == [name |-> "record_journal",
                args |-> [content |-> <<100>>, moodScore |-> Half(5), tags |-> << >>]]

ToolCallLists == {<<TxFood>>, <<TxBadKind>>, <<TxNoCategory>>,
                  <<JournalEleven>>, <<JournalZero>>, <<JournalHalf>>,
                  <<JournalFive, TxFood>>, <<UnknownTool>>}

\* ------------------------------------------------------------------ reply
\* The content of the model's last message: a string, or a list of content
\* blocks (here one text block).
OkText == <<111, 107>>                                  \* "ok"
FinalContents == {[kind |-> "string", val |-> OkText],
                  [kind |-> "blocks", val |-> <<OkText>>]}

Quote == 34
\* JSON.stringify of a list of text blocks: [{"type":"text","text":"ok"}]
\* is abridged to ["ok"]; it is never the text itself.
JSONstringify(blocks) ==
    <<91>> \o join([i \in 1..Len(blocks) |-> <<Quote>> \o blocks[i] \o <<Quote>>]) \o <<93>>

\* typeof content === 'string' ? content : JSON.stringify(content)
responseContent(content) ==
    IF content.kind = "string" THEN content.val ELSE JSONstringify(content.val)

\* ------------------------------------------------------------------ turns
\* turn[t]: one call of ChatController.sendMessage / processMessage.
\*   pc          position: "idle" (not received), "find", "create",
\*               "saveUser", "agent" (model invoked), "tools" (tool calls in
\*               progress), "saveAssistant", "done" (returned), "failed"
\*               (an exception left processMessage), "rejected" (the dto was
\*               refused), "closed" (the HTTP exchange is over)
\*   dto         the request body
\*   session     local `session`: the id of the row, 0 before it is set
\*   input       the messages the agent is started with
\*   calls       the tool calls of the current round, each with its outcome:
\*               "pending", "ok" (func returned its confirmation),
\*               "refused" (unknown tool or schema error, func did not run),
\*               "failed" (func threw)
\*   steps       supersteps of the graph completed
\*   invocations calls of the language model made (history)
\*   content     content of the model's last message
\*   response    what the caller gets
NoResponse == [kind |-> "none"]
NoContent == [kind |-> "none"]
IdleTurn == [pc |-> "idle", dto |-> NoDto, session |-> NoSessionId,
             input |-> << >>, calls |-> << >>, steps |-> 0, invocations |-> 0,
             content |-> NoContent, response |-> NoResponse]

\* No chat screen is open: the requests of Spec come from any client.
NoScreen == [OS |-> "none"]
NoRecognizer == [state |-> "off", recording |-> 0, ends |-> 0]
NoRequest == [state |-> "none", via |-> "none", content |-> EmptyText, userId |-> "",
              sessionId |-> NoSessionId, recording |-> 0, result |-> NoResponse]

InFlight == {t \in Turns : turn[t].pc \notin {"idle", "done", "failed", "rejected", "closed"}}

Init ==
    /\ user = {}
    /\ chatSession = << >>
    /\ chatMessage = << >>
    /\ transaction = << >>
    /\ journal = << >>
    /\ turn = [t \in Turns |-> IdleTurn]
    /\ screen = NoScreen
    /\ recognizer = NoRecognizer
    /\ request = [r \in Requests |-> NoRequest]

db == <<user, chatSession, chatMessage, transaction, journal>>

\* ChatController.sendMessage: a request arrives.  The body is validated
\* against SendMessageDto before the handler runs; a valid one starts
\* processMessage:
\* 0. prisma.user.upsert: the user exists afterwards.  No other step reads
\* the table, so the upsert is part of this action.
sendMessage(t) ==
    /\ turn[t].pc = "idle"
    /\ \A u \in Turns : u < t => turn[u].pc # "idle"
    /\ Cardinality(InFlight) < MaxInFlight
    /\ \E content \in Texts, userId \in UserIds,
          sessionId \in {NoSessionId, UnknownId} \cup SessionIds :
          LET dto == [content |-> content, userId |-> userId, sessionId |-> sessionId]
          IN  IF ValidationPipe(dto)
              THEN /\ user' = user \cup {userId}
                   /\ turn' = [turn EXCEPT ![t].dto = dto,
                                   ![t].pc = IF sessionId # NoSessionId
                                             THEN "find" ELSE "create"]
              ELSE /\ user' = user
                   /\ turn' = [turn EXCEPT ![t].dto = dto,
                                   ![t].pc = "rejected",
                                   ![t].response = [kind |-> "ValidationError"]]
    /\ UNCHANGED <<chatSession, chatMessage, transaction, journal, mobile>>

\* 1. sessionId ? prisma.chatSession.findUnique(...) : null
findSession(t) ==
    /\ turn[t].pc = "find"
    /\ LET session == findUnique(turn[t].dto.sessionId)
       IN  turn' = [turn EXCEPT ![t].session = session,
                                ![t].pc = IF session = NoSessionId
                                          THEN "create" ELSE "saveUser"]
    /\ UNCHANGED <<db, mobile>>

\* if (!session) session = prisma.chatSession.create(...)
\* `turn` is history: the call that created the row.
createSession(t) ==
    /\ turn[t].pc = "create"
    /\ chatSession' = Append(chatSession,
           [id |-> NewSessionId,
            userId |-> turn[t].dto.userId,
            title |-> substring(turn[t].dto.content, 0, TitleLen),
            turn |-> t])
    /\ turn' = [turn EXCEPT ![t].session = NewSessionId, ![t].pc = "saveUser"]
    /\ UNCHANGED <<user, chatMessage, transaction, journal, mobile>>

\* A row filed under the id the caller supplied instead of session.id.
Message_ToSupplied(t, role, content) ==
    [sessionId |-> turn[t].dto.sessionId, role |-> role, content |-> content, turn |-> t]

\* A row of ChatMessage.  `turn` is history: the call that created the row.
Message(t, role, content) ==
    [sessionId |-> turn[t].session, role |-> role, content |-> content, turn |-> t]

\* checkpointSaver: new MemorySaver() is made in every call, so the thread
\* of the session has no checkpoint: the agent starts from no messages.
checkpointMessages(threadId) == << >>

\* The agent started without the user message having been saved.
saveUserMessage_NoAppend(t) ==
    /\ turn[t].pc = "saveUser"
    /\ turn' = [turn EXCEPT ![t].pc = "agent",
                            ![t].input = <<[role |-> "user", content |-> turn[t].dto.content]>>]
    /\ UNCHANGED <<db, mobile>>

\* The user message written only when no other call is at its agent: what
\* a lock held around the agent would do.
saveUserMessage_Locked(t) ==
    /\ turn[t].pc = "saveUser"
    /\ \A u \in Turns \ {t} : turn[u].pc \notin {"agent", "tools", "saveAssistant"}
    /\ chatMessage' = Append(chatMessage, Message(t, "user", turn[t].dto.content))
    /\ turn' = [turn EXCEPT ![t].pc = "agent",
                            ![t].input = checkpointMessages(turn[t].session) \o
                                <<[role |-> "user", content |-> turn[t].dto.content]>>]
    /\ UNCHANGED <<user, chatSession, transaction, journal, mobile>>

\* 2. prisma.chatMessage.create (role 'user'); then the tools and the agent
\* are built and agent.invoke starts with messages: [{role:'user', content}].
saveUserMessage(t) ==
    /\ turn[t].pc = "saveUser"
    /\ chatMessage' = Append(chatMessage, Message(t, "user", turn[t].dto.content))
    /\ turn' = [turn EXCEPT ![t].pc = "agent",
                            ![t].input = checkpointMessages(turn[t].session) \o
                                <<[role |-> "user", content |-> turn[t].dto.content]>>]
    /\ UNCHANGED <<user, chatSession, transaction, journal, mobile>>

\* ------------------------------------------------------------------ agent
\* agent.invoke runs the graph of createReactAgent: the agent node calls the
\* language model, the tools node runs the tool calls of its answer, and so
\* on until an answer without tool calls.  Each run of a node is a superstep;
\* a run that needs more than RecursionLimit supersteps throws.
Rows == Len(transaction) + Len(journal)

\* An exception leaves agent.invoke: processMessage has no try/catch, so
\* it leaves processMessage too and the caller gets the error.
Thrown(me, error) ==
    [me EXCEPT !.pc = "failed", !.response = [kind |-> "error", error |-> error]]

\* The graph has run `steps` supersteps and needs another one.
OutOfSteps_Never(steps) == FALSE

OutOfSteps(steps) == steps >= RecursionLimit

\* 5. agent node: one call of the language model.  It answers with a final
\* content or with tool calls, or the call throws (unreachable, bad output).
invokeModel(t) ==
    /\ turn[t].pc = "agent"
    /\ LET me == [turn[t] EXCEPT !.steps = @ + 1, !.invocations = @ + 1,
                                 !.calls = << >>]
       IN  \/ \E content \in FinalContents :
                turn' = [turn EXCEPT ![t] =
                            [me EXCEPT !.pc = "saveAssistant", !.content = content]]
           \/ \E calls \in ToolCallLists :
                turn' = [turn EXCEPT ![t] =
                            IF OutOfSteps(me.steps)
                            THEN Thrown(me, "GraphRecursionError")
                            ELSE [me EXCEPT !.pc = "tools",
                                     !.calls = [i \in 1..Len(calls) |->
                                         [call |-> calls[i], status |-> "pending"]]]]
           \/ turn' = [turn EXCEPT ![t] = Thrown(me, "ModelError")]
    /\ UNCHANGED <<db, mobile>>

\* The round of tool calls is over when no call is pending: the tools node
\* has run, and the agent node runs next unless the supersteps are used up.
AfterTool(t, calls) ==
    IF \E i \in 1..Len(calls) : calls[i].status = "pending"
    THEN [turn[t] EXCEPT !.calls = calls]
    ELSE IF OutOfSteps(turn[t].steps + 1)
         THEN Thrown([turn[t] EXCEPT !.calls = calls, !.steps = @ + 1],
                     "GraphRecursionError")
         ELSE [turn[t] EXCEPT !.calls = calls, !.steps = @ + 1, !.pc = "agent"]

\* A refused call that throws out of the graph.
refuseToolAt_Throws(t, i) ==
    /\ turn[t].pc = "tools"
    /\ turn[t].calls[i].status = "pending"
    /\ ~ValidCall(turn[t].calls[i].call)
    /\ turn' = [turn EXCEPT ![t] =
                   Thrown([turn[t] EXCEPT !.calls[i].status = "refused"], "ToolError")]
    /\ UNCHANGED <<db, mobile>>

\* tools node, a call that is refused: the tool is not in `tools`, or its
\* arguments do not pass the schema.  func does not run; the error becomes
\* the tool's message.
refuseToolAt(t, i) ==
    /\ turn[t].pc = "tools"
    /\ turn[t].calls[i].status = "pending"
    /\ ~ValidCall(turn[t].calls[i].call)
    /\ turn' = [turn EXCEPT ![t] =
                   AfterTool(t, [turn[t].calls EXCEPT ![i].status = "refused"])]
    /\ UNCHANGED <<db, mobile>>

\* The userId of the request received last: what a tool built once for the
\* service, reading a field every call overwrites, would write.
LatestUserId ==
    LET started == {u \in Turns : turn[u].pc # "idle"}
    IN  turn[CHOOSE u \in started : \A v \in started : v <= u].dto.userId

accountingTool_LatestUser(t, input) ==
    /\ transaction' = Append(transaction,
           [userId |-> LatestUserId, amount |-> input.amount,
            category |-> input.category, type |-> input.type, turn |-> t])
    /\ UNCHANGED journal

\* accountingTool.func: prisma.transaction.create with the userId of the call.
accountingTool(t, input) ==
    /\ transaction' = Append(transaction,
           [userId |-> turn[t].dto.userId, amount |-> input.amount,
            category |-> input.category, type |-> input.type, turn |-> t])
    /\ UNCHANGED journal

\* journalTool.func: prisma.journal.create with the userId of the call.
journalTool(t, input) ==
    /\ journal' = Append(journal,
           [userId |-> turn[t].dto.userId, content |-> input.content,
            moodScore |-> input.moodScore, tags |-> join(input.tags), turn |-> t])
    /\ UNCHANGED transaction

\* tools node, a call that passes the schema: func runs and its row is
\* written; the confirmation becomes the tool's message.
runToolAt(t, i) ==
    /\ turn[t].pc = "tools"
    /\ turn[t].calls[i].status = "pending"
    /\ ValidCall(turn[t].calls[i].call)
    /\ Rows < MaxRows
    /\ IF turn[t].calls[i].call.name = "record_transaction"
       THEN accountingTool(t, turn[t].calls[i].call.args)
       ELSE journalTool(t, turn[t].calls[i].call.args)
    /\ turn' = [turn EXCEPT ![t] =
                   AfterTool(t, [turn[t].calls EXCEPT ![i].status = "ok"])]
    /\ UNCHANGED <<user, chatSession, chatMessage, mobile>>

\* tools node, a call whose write fails: prisma throws inside func, the
\* tools node turns the error into the tool's message.
failToolAt(t, i) ==
    /\ turn[t].pc = "tools"
    /\ turn[t].calls[i].status = "pending"
    /\ ValidCall(turn[t].calls[i].call)
    /\ turn' = [turn EXCEPT ![t] =
                   AfterTool(t, [turn[t].calls EXCEPT ![i].status = "failed"])]
    /\ UNCHANGED <<db, mobile>>

\* The tools node runs the calls of one answer with Promise.all: the calls
\* finish in any order.
refuseTool(t) == \E i \in 1..Len(turn[t].calls) : refuseToolAt(t, i)
runTool(t) == \E i \in 1..Len(turn[t].calls) : runToolAt(t, i)
failTool(t) == \E i \in 1..Len(turn[t].calls) : failToolAt(t, i)

\* The assistant message written over the last row instead of appended.
saveAssistantMessage_Overwrite(t) ==
    /\ turn[t].pc = "saveAssistant"
    /\ chatMessage' = [chatMessage EXCEPT ![Len(chatMessage)] =
           Message(t, "assistant", responseContent(turn[t].content))]
    /\ turn' = [turn EXCEPT ![t].pc = "done",
                            ![t].response = [kind |-> "ok",
                                             sessionId |-> turn[t].session,
                                             response |-> responseContent(turn[t].content)]]
    /\ UNCHANGED <<user, chatSession, transaction, journal, mobile>>

\* The content of the model returned as it is, the serialized one saved.
saveAssistantMessage_RawReply(t) ==
    /\ turn[t].pc = "saveAssistant"
    /\ chatMessage' = Append(chatMessage,
           Message(t, "assistant", responseContent(turn[t].content)))
    /\ turn' = [turn EXCEPT ![t].pc = "done",
                            ![t].response = [kind |-> "ok",
                                             sessionId |-> turn[t].session,
                                             response |-> turn[t].content.val]]
    /\ UNCHANGED <<user, chatSession, transaction, journal, mobile>>

\* 6. prisma.chatMessage.create (role 'assistant'), then return.
saveAssistantMessage(t) ==
    /\ turn[t].pc = "saveAssistant"
    /\ chatMessage' = Append(chatMessage,
           Message(t, "assistant", responseContent(turn[t].content)))
    /\ turn' = [turn EXCEPT ![t].pc = "done",
                            ![t].response = [kind |-> "ok",
                                             sessionId |-> turn[t].session,
                                             response |-> responseContent(turn[t].content)]]
    /\ UNCHANGED <<user, chatSession, transaction, journal, mobile>>

\* The HTTP exchange ends: the caller has the response (or the error), the
\* locals of the call are gone.
close(t) ==
    /\ turn[t].pc \in {"done", "failed", "rejected"}
    /\ turn' = [turn EXCEPT ![t] = [IdleTurn EXCEPT !.pc = "closed"]]
    /\ UNCHANGED <<db, mobile>>

Next ==
    \E t \in Turns :
        \/ sendMessage(t)
        \/ findSession(t)
        \/ createSession(t)
        \/ saveUserMessage(t)
        \/ invokeModel(t)
        \/ refuseTool(t)
        \/ runTool(t)
        \/ failTool(t)
        \/ saveAssistantMessage(t)
        \/ close(t)

Spec == Init /\ [][Next]_vars

\* The steps of processMessage that wait only for the database or for
\* nothing are taken sooner or later.  Nothing makes a client send a
\* request, and nothing makes the remote language model answer: the call of
\* the model is made without a timeout or an abort signal, and agent.invoke
\* is awaited without a deadline.
Fairness ==
    \A t \in Turns :
        /\ WF_vars(findSession(t))
        /\ WF_vars(createSession(t))
        /\ WF_vars(saveUserMessage(t))
        /\ WF_vars(refuseTool(t) \/ runTool(t) \/ failTool(t))
        /\ WF_vars(saveAssistantMessage(t))
        /\ WF_vars(close(t))

SpecFair == Spec /\ Fairness

\* ------------------------------------------------------------------ mobile client
\* The chat screen of the mobile app (app/(tabs)/index.tsx) and the requests
\* it makes.  A handler runs without interruption up to its await; what it
\* does after the await is the step `settle`.
\*   screen      the React state of the screen: messages, inputText,
\*               isLoading, isVoiceMode, sessionId, aiStatus, isRecording,
\*               and the ref recognizedTextRef; OS is Platform.OS
\*   recognizer  the speech recognizer: state "off", "starting" (start
\*               asked, not yet confirmed), "on", "ended"; `recording`
\*               numbers the recordings and `ends` counts the end events of
\*               the current one (history)
\*   request[r]  one call of chatApi.sendMessage: state "none", "sent" (fetch
\*               under way), "served" (the outcome is known, the promise not
\*               yet settled in the screen), "settled"; via "text" or
\*               "voice"; recording: the recording a voice request came from
MOCK_USER_ID == "test-user-id"

Blank == <<32>>                                         \* " "
Hello == <<104, 105>>                                   \* "hi"
Padded == <<32, 104, 105>>                              \* " hi"
InputTexts == {EmptyText, Blank, Padded}                \* what the user types
SpokenTexts == {Blank, Hello}                           \* what the recognizer hears
Apology == <<115, 111, 114, 114, 121>>                  \* the fixed text of the error bubble

RECURSIVE trimStart(_)
trimStart(s) == IF s # << >> /\ Head(s) = 32 THEN trimStart(Tail(s)) ELSE s
RECURSIVE trimEnd(_)
trimEnd(s) == IF s # << >> /\ s[Len(s)] = 32 THEN trimEnd(SubSeq(s, 1, Len(s) - 1)) ELSE s
\* String.prototype.trim(): without the white space at both ends.
trim(s) == trimEnd(trimStart(s))

\* A bubble of the list.  `request` is history: the request it belongs to.
Bubble(sender, text, r) == [sender |-> sender, text |-> text, request |-> r]

\* The state of the first render: the initial values of useState and useRef.
MountedScreen(os) ==
    [OS |-> os,
     messages |-> <<Bubble("ai", <<119, 101, 108, 99, 111, 109, 101>>, 0)>>,
     inputText |-> EmptyText, isLoading |-> FALSE, isVoiceMode |-> TRUE,
     sessionId |-> NoSessionId, aiStatus |-> "idle", isRecording |-> FALSE,
     recognizedTextRef |-> EmptyText]

MobileInit ==
    /\ user = {}
    /\ chatSession = << >>
    /\ chatMessage = << >>
    /\ transaction = << >>
    /\ journal = << >>
    /\ turn = [t \in Turns |-> IdleTurn]
    /\ screen \in {MountedScreen(os) : os \in {"web", "native"}}
    /\ recognizer = NoRecognizer
    /\ request = [r \in Requests |-> NoRequest]

\* The requests whose promise is not settled.
Outstanding == {r \in Requests : request[r].state \in {"sent", "served"}}

CanSend == \E r \in Requests : request[r].state = "none"

\* The request the next call of chatApi.sendMessage makes.
NextRequest ==
    CHOOSE r \in Requests :
        request[r].state = "none" /\ \A q \in Requests : q < r => request[q].state # "none"

\* chatApi.sendMessage(data): fetch is started with the data as its body.
chatApi_sendMessage(data, via) ==
    [request EXCEPT ![NextRequest] =
        [state |-> "sent", via |-> via, content |-> data.content,
         userId |-> data.userId, sessionId |-> data.sessionId,
         recording |-> IF via = "voice" THEN recognizer.recording ELSE 0,
         result |-> NoResponse]]

\* onChangeText={setInputText}: the user edits the text field, which is
\* rendered in text mode.
onChangeText ==
    /\ ~screen.isVoiceMode
    /\ \E text \in InputTexts : screen' = [screen EXCEPT !.inputText = text]
    /\ UNCHANGED <<db, turn, recognizer, request>>

\* onPress={() => setIsVoiceMode(!isVoiceMode)}
setIsVoiceMode ==
    /\ screen' = [screen EXCEPT !.isVoiceMode = ~@]
    /\ UNCHANGED <<db, turn, recognizer, request>>

\* sendMessage of the screen, up to its await.  The send button gets the
\* handler of the latest render: it reads the current state.
Screen_sendMessage ==
    /\ ~screen.isVoiceMode
    /\ IF Len(trim(screen.inputText)) = 0 \/ screen.isLoading
       THEN UNCHANGED <<screen, request>>
       ELSE /\ CanSend
            /\ screen' = [screen EXCEPT
                   !.messages = Append(@, Bubble("user", screen.inputText, NextRequest)),
                   !.inputText = EmptyText,
                   !.isLoading = TRUE,
                   !.aiStatus = "thinking"]
            /\ request' = chatApi_sendMessage(
                   [content |-> screen.inputText, userId |-> MOCK_USER_ID,
                    sessionId |-> screen.sessionId], "text")
    /\ UNCHANGED <<db, turn, recognizer>>

\* The listeners of the recognizer are set by effects that run once, after
\* the first render (dependencies []): the handleVoiceMessage they call is
\* the one of the first render, and the isLoading and sessionId it reads
\* are the values of that render for the life of the screen.
FirstRender == [isLoading |-> FALSE, sessionId |-> NoSessionId]

\* if (!text.trim() || isLoading) return
VoiceAccepted(text) == ~(trim(text) = EmptyText \/ FirstRender.isLoading)

VoiceData(text) ==
    [content |-> trim(text), userId |-> MOCK_USER_ID, sessionId |-> FirstRender.sessionId]

\* handleVoiceMessage(text), up to its await: the screen after it, `me`
\* being the screen with the updates the listener made before the call.
handleVoiceMessage(me, text) ==
    IF VoiceAccepted(text)
    THEN [me EXCEPT !.messages = Append(@, Bubble("user", trim(text), NextRequest)),
                    !.isLoading = TRUE,
                    !.aiStatus = "thinking"]
    ELSE me

\* handleStartRecording (onPressIn of the voice button).  A start while
\* isRecording is ignored.  On the web recognition.start() throws when the
\* recognition is already started; on a device Voice.isRecognizing() is
\* asked first, and Voice.start may throw.
handleStartRecording ==
    /\ screen.isVoiceMode
    /\ \/ /\ screen.isRecording
          /\ UNCHANGED <<screen, recognizer>>
       \/ /\ ~screen.isRecording
          /\ screen.OS = "web"
          /\ recognizer.state # "on"
          /\ recognizer.recording < MaxRecordings
          /\ recognizer' = [state |-> "on", recording |-> recognizer.recording + 1,
                            ends |-> 0]
          /\ screen' = [screen EXCEPT !.isRecording = TRUE, !.aiStatus = "listening"]
       \/ /\ ~screen.isRecording
          /\ screen.OS = "web"
          /\ recognizer.state = "on"
          /\ UNCHANGED <<screen, recognizer>>
       \/ /\ ~screen.isRecording
          /\ screen.OS = "native"
          /\ recognizer.state \in {"starting", "on"}
          /\ UNCHANGED <<screen, recognizer>>
       \/ /\ ~screen.isRecording
          /\ screen.OS = "native"
          /\ recognizer.state \notin {"starting", "on"}
          /\ recognizer.recording < MaxRecordings
          /\ recognizer' = [state |-> "starting", recording |-> recognizer.recording + 1,
                            ends |-> 0]
          /\ UNCHANGED screen
       \/ /\ ~screen.isRecording
          /\ screen.OS = "native"
          /\ recognizer.state \notin {"starting", "on"}
          /\ screen' = [screen EXCEPT !.isRecording = FALSE, !.aiStatus = "idle"]
          /\ UNCHANGED recognizer
    /\ UNCHANGED <<db, turn, request>>

\* handleStopRecording (onPressOut of the voice button).  On a device that
\* is recording Voice.stop() is awaited and the state is left to
\* onSpeechEnd; in every other case (the web, Voice.stop() throwing, not
\* recording) isRecording and aiStatus are reset.
handleStopRecording ==
    /\ screen.isVoiceMode
    /\ \/ /\ screen.OS = "native"
          /\ screen.isRecording
          /\ UNCHANGED screen
       \/ screen' = [screen EXCEPT !.isRecording = FALSE, !.aiStatus = "idle"]
    /\ UNCHANGED <<db, turn, recognizer, request>>

\* Voice.onSpeechStart: the recognizer confirms the start.
onSpeechStart ==
    /\ screen.OS = "native"
    /\ recognizer.state = "starting"
    /\ recognizer' = [recognizer EXCEPT !.state = "on"]
    /\ screen' = [screen EXCEPT !.isRecording = TRUE, !.aiStatus = "listening"]
    /\ UNCHANGED <<db, turn, request>>

\* Voice.onSpeechResults / recognition.onresult: the text heard so far is
\* kept in the ref, nothing is sent.  The recognizer reports results while
\* it is on, before it reports the end.
onSpeechResults ==
    /\ recognizer.state = "on"
    /\ \E text \in SpokenTexts : screen' = [screen EXCEPT !.recognizedTextRef = text]
    /\ UNCHANGED <<db, turn, recognizer, request>>

\* An end listener that leaves the text in the ref.
onSpeechEnd_NoClear ==
    /\ recognizer.state \in {"on", "ended"}
    /\ recognizer.ends < MaxEnds
    /\ LET stopped == [screen EXCEPT !.isRecording = FALSE, !.aiStatus = "idle"]
           finalText == trim(screen.recognizedTextRef)
       IN  IF finalText # EmptyText
           THEN /\ VoiceAccepted(finalText) => CanSend
                /\ screen' = handleVoiceMessage(stopped, finalText)
                /\ request' = IF VoiceAccepted(finalText)
                              THEN chatApi_sendMessage(VoiceData(finalText), "voice")
                              ELSE request
           ELSE /\ screen' = stopped
                /\ UNCHANGED request
    /\ recognizer' = [recognizer EXCEPT !.state = "ended", !.ends = @ + 1]
    /\ UNCHANGED <<db, turn>>

\* Voice.onSpeechEnd / recognition.onend: the recognition is over; the
\* text in the ref, if any, is handed to handleVoiceMessage and the ref is
\* emptied.  The recognizer may report the end more than once.
onSpeechEnd ==
    /\ recognizer.state \in {"on", "ended"}
    /\ recognizer.ends < MaxEnds
    /\ LET stopped == [screen EXCEPT !.isRecording = FALSE, !.aiStatus = "idle"]
           finalText == trim(screen.recognizedTextRef)
       IN  IF finalText # EmptyText
           THEN /\ VoiceAccepted(finalText) => CanSend
                /\ screen' = [handleVoiceMessage(stopped, finalText) EXCEPT
                                 !.recognizedTextRef = EmptyText]
                /\ request' = IF VoiceAccepted(finalText)
                              THEN chatApi_sendMessage(VoiceData(finalText), "voice")
                              ELSE request
           ELSE /\ screen' = stopped
                /\ UNCHANGED request
    /\ recognizer' = [recognizer EXCEPT !.state = "ended", !.ends = @ + 1]
    /\ UNCHANGED <<db, turn>>

\* Voice.onSpeechError / recognition.onerror: the recognition failed; the
\* ref keeps its text.  An end event may still follow.
onSpeechError ==
    /\ recognizer.state \in {"starting", "on"}
    /\ screen' = [screen EXCEPT !.isRecording = FALSE, !.aiStatus = "idle"]
    /\ recognizer' = [recognizer EXCEPT !.state = "ended"]
    /\ UNCHANGED <<db, turn, request>>

\* The server handles the request: processMessage as the client sees it.
\* The session is the one supplied if it exists and a new one otherwise,
\* the user message is saved, and the agent ends with a final content,
\* which is saved and returned, or with an exception, which becomes an
\* error response.
processMessage(r) ==
    /\ request[r].state = "sent"
    /\ LET found == findUnique(request[r].sessionId)
           session == IF found = NoSessionId THEN NewSessionId ELSE found
           userRow == [sessionId |-> session, role |-> "user",
                       content |-> request[r].content, turn |-> 0]
       IN  /\ user' = user \cup {request[r].userId}
           /\ chatSession' =
                 IF found = NoSessionId
                 THEN Append(chatSession,
                          [id |-> NewSessionId, userId |-> request[r].userId,
                           title |-> substring(request[r].content, 0, TitleLen),
                           turn |-> 0])
                 ELSE chatSession
           /\ \/ \E content \in FinalContents :
                    /\ chatMessage' = chatMessage \o
                           <<userRow, [sessionId |-> session, role |-> "assistant",
                                       content |-> responseContent(content), turn |-> 0]>>
                    /\ request' = [request EXCEPT
                           ![r].state = "served",
                           ![r].result = [kind |-> "ok", sessionId |-> session,
                                          response |-> responseContent(content)]]
              \/ /\ chatMessage' = Append(chatMessage, userRow)
                 /\ request' = [request EXCEPT
                        ![r].state = "served",
                        ![r].result = [kind |-> "error", error |-> "ServerError"]]
    /\ UNCHANGED <<transaction, journal, turn, screen, recognizer>>

\* fetch rejects: the request does not reach the server.
fetchFails(r) ==
    /\ request[r].state = "sent"
    /\ request' = [request EXCEPT
           ![r].state = "served",
           ![r].result = [kind |-> "error", error |-> "NetworkError"]]
    /\ UNCHANGED <<db, turn, screen, recognizer>>

\* A continuation whose error path does not reset the state.
settle_NoFinally(r) ==
    /\ request[r].state = "served"
    /\ LET result == request[r].result
       IN  screen' =
             IF result.kind = "ok"
             THEN [screen EXCEPT
                      !.sessionId = result.sessionId,
                      !.messages = Append(@, Bubble("ai", result.response, r)),
                      !.isLoading = FALSE,
                      !.aiStatus = "idle"]
             ELSE [screen EXCEPT !.messages = Append(@, Bubble("ai", Apology, r))]
    /\ request' = [request EXCEPT ![r].state = "settled"]
    /\ UNCHANGED <<db, turn, recognizer>>

\* The rest of sendMessage / handleVoiceMessage, after the await: on
\* success setSessionId and the bubble of the response, on an error the
\* bubble of the apology; finally isLoading and aiStatus are reset.
settle(r) ==
    /\ request[r].state = "served"
    /\ LET result == request[r].result
       IN  screen' =
             IF result.kind = "ok"
             THEN [screen EXCEPT
                      !.sessionId = result.sessionId,
                      !.messages = Append(@, Bubble("ai", result.response, r)),
                      !.isLoading = FALSE,
                      !.aiStatus = "idle"]
             ELSE [screen EXCEPT
                      !.messages = Append(@, Bubble("ai", Apology, r)),
                      !.isLoading = FALSE,
                      !.aiStatus = "idle"]
    /\ request' = [request EXCEPT ![r].state = "settled"]
    /\ UNCHANGED <<db, turn, recognizer>>

MobileNext ==
    \/ onChangeText
    \/ setIsVoiceMode
    \/ Screen_sendMessage
    \/ handleStartRecording
    \/ handleStopRecording
    \/ onSpeechStart
    \/ onSpeechResults
    \/ onSpeechEnd
    \/ onSpeechError
    \/ \E r \in Requests :
          \/ processMessage(r)
          \/ fetchFails(r)
          \/ settle(r)

MobileSpec == MobileInit /\ [][MobileNext]_vars

\* ------------------------------------------------------------------ views
\* The message log of a session: its rows in creation order.
MessagesIn(log, sid) ==
    LET InSession(m) == m.sessionId = sid
    IN  SelectSeq(log, InSession)

MessagesBy(t) ==
    LET By(m) == m.turn = t
    IN  SelectSeq(chatMessage, By)

SessionsBy(t) ==
    LET By(r) == r.turn = t
    IN  SelectSeq(chatSession, By)

RowsBy(t) ==
    LET By(r) == r.turn = t
    IN  Len(SelectSeq(transaction, By)) + Len(SelectSeq(journal, By))

Roles(ms) == [i \in 1..Len(ms) |-> ms[i].role]

Context(ms) == [i \in 1..Len(ms) |-> [role |-> ms[i].role, content |-> ms[i].content]]

\* The call has its session and is past step 1.
Resolved(t) ==
    turn[t].pc \in {"saveUser", "agent", "tools", "saveAssistant", "done", "failed"}

\* The call is between the append of its user message and the append of
\* its assistant message.
Reasoning(t) == turn[t].pc \in {"agent", "tools", "saveAssistant"}

Finished(t) == turn[t].pc \in {"done", "failed"}

Stepped(t) == turn'[t] # turn[t]

\* The most calls of the language model one agent.invoke can make.
MaxInvocations == (RecursionLimit + 1) \div 2

\* ------------------------------------------------------------------ claims

\* C1: when processMessage has finished a turn with non-empty text, whether
\* the agent succeeded or failed, the turn has appended exactly one user
\* message and then exactly one assistant message to its session.
C1_OneUserOneAssistant ==
    \A t \in Turns :
        Finished(t) =>
            /\ Roles(MessagesBy(t)) = <<"user", "assistant">>
            /\ \A i \in 1..Len(MessagesBy(t)) :
                  MessagesBy(t)[i].sessionId = turn[t].session

\* C2: no two turns of the same session are between their user message and
\* their assistant message at the same time.
C2_NoInterleaving ==
    \A t1, t2 \in Turns :
        (t1 # t2 /\ Reasoning(t1) /\ Reasoning(t2)) =>
            turn[t1].session # turn[t2].session

\* C3: a failure of the agent never reaches the caller: the only failures a
\* caller sees are ValidationError, AuthorizationError and SessionBusy.
C3_NoFailureSurfaced ==
    \A t \in Turns :
        turn[t].response.kind \in
            {"none", "ok", "ValidationError", "AuthorizationError", "SessionBusy"}

\* C4: whenever the language model has been invoked for a turn, or the
\* agent has failed, the user message of the turn is already a row of the
\* turn's session.
C4_UserMessageFirst ==
    \A t \in Turns :
        (turn[t].invocations > 0 \/ Reasoning(t) \/ Finished(t)) =>
            \E i \in 1..Len(chatMessage) :
                chatMessage[i] = Message(t, "user", turn[t].dto.content)

C4_Witness ==
    \E t \in Turns :
        /\ turn[t].pc = "failed"
        /\ turn[t].invocations > 0
        /\ \E i \in 1..Len(chatMessage) :
              chatMessage[i] = Message(t, "user", turn[t].dto.content)

\* C5: the messages the agent is started with are the whole log of the
\* session in creation order, ending with the new user message.
C5_ContextIsHistory ==
    [][\A t \in Turns :
          (turn[t].pc = "saveUser" /\ turn'[t].pc = "agent") =>
              turn'[t].input = Context(MessagesIn(chatMessage', turn'[t].session))]_vars

\* C6: one agent.invoke calls the language model at most MaxInvocations
\* times: after that many answers asking for tools the graph is aborted
\* with GraphRecursionError, which ends the turn like every other failure
\* of the agent.
C6_Bounded ==
    \A t \in Turns :
        /\ turn[t].invocations <= MaxInvocations
        /\ turn[t].pc = "agent" => turn[t].invocations < MaxInvocations
        /\ (turn[t].response.kind = "error"
              /\ turn[t].response.error = "GraphRecursionError") =>
                 /\ turn[t].pc = "failed"
                 /\ turn[t].invocations = MaxInvocations

C6_Witness ==
    \E t \in Turns :
        /\ turn[t].pc = "failed"
        /\ turn[t].response.kind = "error"
        /\ turn[t].response.error = "GraphRecursionError"
        /\ turn[t].invocations = MaxInvocations

\* C7: a turn that supplies the id of a session of another user appends no
\* message, writes no transaction or journal row and does not return
\* normally.
C7_ForeignSessionRefused ==
    \A t \in Turns :
        (/\ turn[t].pc \notin {"idle", "closed", "rejected"}
         /\ turn[t].dto.sessionId \in SessionIds
         /\ SessionRow(turn[t].dto.sessionId).userId # turn[t].dto.userId) =>
            /\ MessagesBy(t) = << >>
            /\ RowsBy(t) = 0
            /\ turn[t].pc # "done"

\* C8: a turn that supplies the id of an existing session works on that
\* session and none of its steps creates a session; a step creates at most
\* one session.
C8_Idempotent ==
    /\ [](\A t \in Turns :
            (Resolved(t) /\ turn[t].dto.sessionId \in SessionIds) =>
                /\ turn[t].session = turn[t].dto.sessionId
                /\ SessionsBy(t) = << >>)
    /\ [][/\ Len(chatSession') <= Len(chatSession) + 1
          /\ \A t \in Turns :
                (Stepped(t) /\ turn[t].dto.sessionId \in SessionIds) =>
                    chatSession' = chatSession]_vars

C8_Witness ==
    \E t \in Turns :
        /\ turn[t].pc = "done"
        /\ turn[t].dto.sessionId \in SessionIds
        /\ SessionRow(turn[t].dto.sessionId).userId = turn[t].dto.userId
        /\ Len(chatSession) = 1

\* C9: a turn that supplies no session id, or an id no session has, creates
\* exactly one session, owned by its user; every message of the turn is a
\* row of that session, and the sessionId returned is the id of that
\* session, not the id supplied.
C9_NewSession ==
    \A t \in Turns :
        (Resolved(t) /\ turn[t].dto.sessionId \notin SessionIds) =>
            /\ Len(SessionsBy(t)) = 1
            /\ SessionsBy(t)[1].id = turn[t].session
            /\ SessionsBy(t)[1].userId = turn[t].dto.userId
            /\ turn[t].session # turn[t].dto.sessionId
            /\ \A i \in 1..Len(MessagesBy(t)) :
                  MessagesBy(t)[i].sessionId = turn[t].session
            /\ (Reasoning(t) \/ Finished(t)) => Len(MessagesBy(t)) >= 1
            /\ turn[t].pc = "done" =>
                  /\ Roles(MessagesBy(t)) = <<"user", "assistant">>
                  /\ turn[t].response.sessionId = turn[t].session

C9_Witness ==
    \E t1, t2 \in Turns :
        /\ turn[t1].pc = "done" /\ turn[t1].dto.sessionId = NoSessionId
        /\ turn[t2].pc = "done" /\ turn[t2].dto.sessionId = UnknownId
        /\ turn[t2].response.sessionId \in SessionIds

Calls(t) == 1..Len(turn[t].calls)

\* This step ends call i of the current round of turn t.
Resolves(t, i) ==
    /\ turn[t].pc = "tools"
    /\ turn[t].calls[i].status = "pending"
    /\ Len(turn'[t].calls) = Len(turn[t].calls)
    /\ turn'[t].calls[i].status # "pending"

Last(s) == s[Len(s)]

IsInteger(n) == n % 2 = 0

\* C11: a record_transaction call whose arguments pass the schema runs the
\* executor once: the step that ends it with a confirmation inserts exactly
\* one transaction row with its amount, category and type, and no step
\* inserts a row otherwise; a call whose type is neither EXPENSE nor INCOME
\* is refused without any insert.  (A call whose insert the database
\* rejects ends "failed" with no row.)
C11_ExactlyOneTransaction ==
    [][/\ \A t \in Turns : \A i \in Calls(t) :
             (Resolves(t, i) /\ turn[t].calls[i].call.name = "record_transaction") =>
                 LET args == turn[t].calls[i].call.args
                     status == turn'[t].calls[i].status
                 IN  /\ journal' = journal
                     /\ args.type \notin {"EXPENSE", "INCOME"} =>
                            status = "refused" /\ transaction' = transaction
                     /\ args.type \in {"EXPENSE", "INCOME"} =>
                            status \in {"ok", "failed"}
                     /\ status # "ok" => transaction' = transaction
                     /\ status = "ok" =>
                            /\ Len(transaction') = Len(transaction) + 1
                            /\ SubSeq(transaction', 1, Len(transaction)) = transaction
                            /\ Last(transaction').amount = args.amount
                            /\ Last(transaction').category = args.category
                            /\ Last(transaction').type = args.type
                            /\ Last(transaction').turn = t
       /\ transaction' # transaction =>
             \E t \in Turns : \E i \in Calls(t) :
                 /\ Resolves(t, i)
                 /\ turn[t].calls[i].call.name = "record_transaction"
                 /\ turn'[t].calls[i].status = "ok"]_vars

C11_Witness ==
    \E t1, t2 \in Turns :
        /\ \E i \in Calls(t1) :
              /\ turn[t1].calls[i].call = TxFood
              /\ turn[t1].calls[i].status = "ok"
        /\ \E i \in Calls(t2) :
              /\ turn[t2].calls[i].call = TxBadKind
              /\ turn[t2].calls[i].status = "refused"
        /\ \E k \in 1..Len(transaction) : transaction[k].turn = t1
        /\ ~ \E k \in 1..Len(transaction) : transaction[k].turn = t2

\* C12: a record_journal call with moodScore 11 or 0 is refused by the
\* schema and inserts nothing; a call with moodScore 5 and no tags that
\* ends with a confirmation has inserted exactly one journal row, whose
\* tags are empty.
C12_JournalMood ==
    [][/\ \A t \in Turns : \A i \in Calls(t) :
             (Resolves(t, i) /\ turn[t].calls[i].call.name = "record_journal") =>
                 LET args == turn[t].calls[i].call.args
                     status == turn'[t].calls[i].status
                 IN  /\ transaction' = transaction
                     /\ args.moodScore \in {Num(0), Num(11)} =>
                            status = "refused" /\ journal' = journal
                     /\ (args.moodScore = Num(5) /\ args.tags = << >>) =>
                            status \in {"ok", "failed"}
                     /\ status # "ok" => journal' = journal
                     /\ (status = "ok" /\ args.moodScore = Num(5) /\ args.tags = << >>) =>
                            /\ Len(journal') = Len(journal) + 1
                            /\ SubSeq(journal', 1, Len(journal)) = journal
                            /\ Last(journal').moodScore = Num(5)
                            /\ Last(journal').tags = << >>
                            /\ Last(journal').content = args.content
                            /\ Last(journal').turn = t
       /\ journal' # journal =>
             \E t \in Turns : \E i \in Calls(t) :
                 /\ Resolves(t, i)
                 /\ turn[t].calls[i].call.name = "record_journal"
                 /\ turn'[t].calls[i].status = "ok"]_vars

C12_Witness ==
    \E t1, t2 \in Turns :
        /\ \E i \in Calls(t1) :
              /\ turn[t1].calls[i].call = JournalFive
              /\ turn[t1].calls[i].status = "ok"
        /\ \E i \in Calls(t2) :
              /\ turn[t2].calls[i].call \in {JournalEleven, JournalZero}
              /\ turn[t2].calls[i].status = "refused"
        /\ \E k \in 1..Len(journal) :
              /\ journal[k].turn = t1
              /\ journal[k].tags = << >>
              /\ journal[k].moodScore = Num(5)
        /\ ~ \E k \in 1..Len(journal) : journal[k].turn = t2

\* C13: every journal row has an integer moodScore between 1 and 10, and a
\* record_journal call whose moodScore is not such a number is refused by
\* the schema: its executor never runs.
C13_MoodIsInteger ==
    /\ \A k \in 1..Len(journal) :
          /\ IsInteger(journal[k].moodScore)
          /\ journal[k].moodScore >= Num(MoodMin)
          /\ journal[k].moodScore <= Num(MoodMax)
    /\ \A t \in Turns : \A i \in Calls(t) :
          (/\ turn[t].calls[i].call.name = "record_journal"
           /\ ~ (/\ IsInteger(turn[t].calls[i].call.args.moodScore)
                 /\ turn[t].calls[i].call.args.moodScore >= Num(MoodMin)
                 /\ turn[t].calls[i].call.args.moodScore <= Num(MoodMax))) =>
              turn[t].calls[i].status \in {"pending", "refused"}

\* C14: every transaction row has a non-empty category, and a
\* record_transaction call with an empty category is refused by the schema.
C14_CategoryNotEmpty ==
    /\ \A k \in 1..Len(transaction) : transaction[k].category # << >>
    /\ \A t \in Turns : \A i \in Calls(t) :
          (/\ turn[t].calls[i].call.name = "record_transaction"
           /\ turn[t].calls[i].call.args.category = << >>) =>
              turn[t].calls[i].status \in {"pending", "refused"}

\* C15: the tool calls of one answer run one after the other in the order
\* of the answer: a call is over only when every call before it is over.
C15_InOrder ==
    \A t \in Turns : \A i, j \in Calls(t) :
        (i < j /\ turn[t].calls[j].status # "pending") =>
            turn[t].calls[i].status # "pending"

\* The language model answers turn t with a final content.
Finalizes(t) == invokeModel(t) /\ turn'[t].pc = "saveAssistant"

\* C16: a call of an unknown tool or with arguments the schema refuses does
\* not end the agent: the step that refuses it changes no table and leaves
\* the turn in the round or back at the language model with the refusal
\* among the results (the turn fails only when the supersteps are used up),
\* and from there the model can still give its final answer.
C16_RefusalFedBack ==
    /\ [](\A t \in Turns :
            (turn[t].pc = "agent" /\ \E i \in Calls(t) : turn[t].calls[i].status = "refused") =>
                ENABLED Finalizes(t))
    /\ [][\A t \in Turns : \A i \in Calls(t) :
             (Resolves(t, i) /\ ~ValidCall(turn[t].calls[i].call)) =>
                 /\ turn'[t].calls[i].status = "refused"
                 /\ db' = db
                 /\ \/ turn'[t].pc \in {"tools", "agent"}
                    \/ /\ turn'[t].pc = "failed"
                       /\ turn'[t].response.error = "GraphRecursionError"
                       /\ OutOfSteps(turn'[t].steps)]_vars

C16_Witness ==
    \E t1, t2 \in Turns :
        /\ turn[t1].pc = "agent"
        /\ \E i \in Calls(t1) :
              turn[t1].calls[i].call = UnknownTool /\ turn[t1].calls[i].status = "refused"
        /\ turn[t2].pc = "agent"
        /\ \E i \in Calls(t2) :
              turn[t2].calls[i].call = JournalEleven /\ turn[t2].calls[i].status = "refused"

\* C17: a turn one of whose tool calls failed in its insert ends as a
\* failure of the agent, and a call ends with a confirmation only if its
\* row was inserted.
C17_WriteFailureSurfaces ==
    /\ \A t \in Turns :
          (\E i \in Calls(t) : turn[t].calls[i].status = "failed") =>
              turn[t].pc = "failed"
    /\ \A t \in Turns :
          Cardinality({i \in Calls(t) : turn[t].calls[i].status = "ok"}) <= RowsBy(t)

\* ------------------------------------------------------------------ turn claims
IsPrefix(s, r) == Len(s) <= Len(r) /\ SubSeq(r, 1, Len(s)) = s

Over(t) == turn[t].pc \in {"done", "failed", "closed"}

\* C18: every turn that has started is over sooner or later, whatever the
\* remote language model does.
C18_Terminates ==
    \A t \in Turns : (turn[t].pc \in {"find", "create"}) ~> Over(t)

\* C19: no step edits, reorders or deletes a message: the table before a
\* step is a prefix of the table after it, and so is the log of every
\* session.
C19_AppendOnly ==
    [][/\ IsPrefix(chatMessage, chatMessage')
       /\ \A sid \in SessionIds :
             IsPrefix(MessagesIn(chatMessage, sid), MessagesIn(chatMessage', sid))]_vars

C19_Witness ==
    \E sid \in SessionIds :
        /\ Len(MessagesIn(chatMessage, sid)) >= 3
        /\ \E t \in Turns : turn[t].pc = "done" /\ turn[t].session = sid

\* C20: a transaction or journal row carries the userId of the request of
\* the turn whose tool call inserted it, whatever other turns are running.
C20_RowOwner ==
    /\ [](/\ \A k \in 1..Len(transaction) :
               turn[transaction[k].turn].pc # "closed" =>
                   transaction[k].userId = turn[transaction[k].turn].dto.userId
          /\ \A k \in 1..Len(journal) :
               turn[journal[k].turn].pc # "closed" =>
                   journal[k].userId = turn[journal[k].turn].dto.userId)
    /\ [][\A t \in Turns : \A i \in Calls(t) :
             (Resolves(t, i) /\ turn'[t].calls[i].status = "ok") =>
                 /\ transaction' # transaction =>
                       /\ Last(transaction').userId = turn[t].dto.userId
                       /\ Last(transaction').turn = t
                 /\ journal' # journal =>
                       /\ Last(journal').userId = turn[t].dto.userId
                       /\ Last(journal').turn = t]_vars

C20_Witness ==
    \E t1, t2 \in Turns :
        /\ turn[t1].pc \in {"tools", "agent"}
        /\ turn[t2].pc \in {"tools", "agent"}
        /\ turn[t1].dto.userId # turn[t2].dto.userId
        /\ t1 < t2
        /\ \E k \in 1..Len(transaction) :
              transaction[k].turn = t1 /\ transaction[k].userId = turn[t1].dto.userId
        /\ \E k \in 1..Len(journal) :
              journal[k].turn = t2 /\ journal[k].userId = turn[t2].dto.userId

\* ------------------------------------------------------------------ session claims
\* C21: the title of a session is the first TitleLen characters of the text
\* of the turn that created it (the whole text when it is shorter), and no
\* step changes the title of a session that exists.
C21_TitleOnce ==
    /\ [](\A k \in 1..Len(chatSession) :
            LET t == chatSession[k].turn
            IN  /\ Len(chatSession[k].title) <= TitleLen
                /\ turn[t].pc # "closed" =>
                       /\ IsPrefix(chatSession[k].title, turn[t].dto.content)
                       /\ Len(chatSession[k].title) = TitleLen
                              \/ chatSession[k].title = turn[t].dto.content)
    /\ [][\A k \in 1..Len(chatSession) :
             /\ Len(chatSession') >= k
             /\ chatSession'[k].id = chatSession[k].id
             /\ chatSession'[k].title = chatSession[k].title]_vars

C21_Witness ==
    \E t1, t2 \in Turns :
        /\ t1 # t2
        /\ turn[t1].pc = "done" /\ turn[t2].pc = "done"
        /\ turn[t1].session = turn[t2].session
        /\ Len(SessionsBy(t1)) = 1
        /\ SessionsBy(t1)[1].id = turn[t1].session
        /\ Len(turn[t1].dto.content) > TitleLen
        /\ SessionsBy(t1)[1].title = SubSeq(turn[t1].dto.content, 1, TitleLen)

\* C22: a turn that returns normally returns the content of the assistant
\* message it saved; that text is the content of the model's last message
\* when it is a string and its JSON text otherwise, and two turns whose
\* model ended with the same content return the same text.
C22_ReplyIsSaved ==
    /\ \A t \in Turns :
          turn[t].pc = "done" =>
              /\ turn[t].response.kind = "ok"
              /\ MessagesBy(t) # << >>
              /\ Last(MessagesBy(t)).role = "assistant"
              /\ Last(MessagesBy(t)).content = turn[t].response.response
              /\ turn[t].content.kind = "string" =>
                     turn[t].response.response = turn[t].content.val
              /\ turn[t].content.kind = "blocks" =>
                     turn[t].response.response = JSONstringify(turn[t].content.val)
    /\ \A t1, t2 \in Turns :
          (/\ turn[t1].pc = "done" /\ turn[t2].pc = "done"
           /\ turn[t1].content = turn[t2].content) =>
              turn[t1].response.response = turn[t2].response.response

C22_Witness ==
    \E t1, t2 \in Turns :
        /\ turn[t1].pc = "done" /\ turn[t2].pc = "done"
        /\ turn[t1].content.kind = "string"
        /\ turn[t1].response.response = OkText
        /\ turn[t2].content.kind = "blocks"
        /\ turn[t2].response.response # OkText
        /\ Last(MessagesBy(t2)).content = turn[t2].response.response

\* The log and the title of session sid.
LogOf(sid) == MessagesIn(chatMessage, sid)
TitleOf(sid) == SessionRow(sid).title

\* C23: a step of a turn leaves the log and the title of every session
\* other than the turn's own unchanged, and no turn waits for another one
\* or is refused because of it: whatever the other turns are doing, the
\* next step of a turn can be taken, and a turn is rejected only for its
\* own dto.
C23_Independent ==
    /\ [](\A t \in Turns :
            /\ turn[t].pc = "find" => ENABLED findSession(t)
            /\ turn[t].pc = "create" => ENABLED createSession(t)
            /\ turn[t].pc = "saveUser" => ENABLED saveUserMessage(t)
            /\ turn[t].pc = "agent" => ENABLED invokeModel(t)
            /\ turn[t].pc = "tools" => ENABLED (refuseTool(t) \/ runTool(t) \/ failTool(t))
            /\ turn[t].pc = "saveAssistant" => ENABLED saveAssistantMessage(t)
            /\ turn[t].pc = "rejected" => ~ValidDto(turn[t].dto)
            /\ turn[t].response.kind # "SessionBusy")
    /\ [][\A t \in Turns : \A sid \in SessionIds :
             (Stepped(t) /\ turn'[t].session # sid /\ turn[t].session # sid) =>
                 /\ MessagesIn(chatMessage', sid) = LogOf(sid)
                 /\ sid \in {chatSession'[k].id : k \in 1..Len(chatSession')}
                 /\ chatSession'[CHOOSE k \in 1..Len(chatSession') :
                                    chatSession'[k].id = sid].title = TitleOf(sid)]_vars

C23_Witness ==
    \E t1, t2 \in Turns :
        /\ turn[t1].pc = "tools"
        /\ turn[t2].pc = "done"
        /\ turn[t1].session # turn[t2].session
        /\ t1 < t2
        /\ Len(LogOf(turn[t1].session)) = 1
        /\ Len(LogOf(turn[t2].session)) = 2

\* The rows of role `role` among the first k of a log.
CountRole(log, k, role) == Cardinality({i \in 1..k : log[i].role = role})

\* C24: the log of every session starts with a user message, and among the
\* first k messages of it, for every k, the user messages are at least as
\* many as the assistant messages.
C24_UserBeforeAssistant ==
    \A sid \in SessionIds \cup {chatMessage[i].sessionId : i \in 1..Len(chatMessage)} :
        /\ LogOf(sid) # << >> => LogOf(sid)[1].role = "user"
        /\ \A k \in 1..Len(LogOf(sid)) :
              CountRole(LogOf(sid), k, "user") >= CountRole(LogOf(sid), k, "assistant")

C24_Witness ==
    \E sid \in SessionIds :
        /\ Roles(LogOf(sid)) = <<"user", "user", "assistant", "assistant">>
        /\ LogOf(sid)[3].turn # LogOf(sid)[4].turn

\* ------------------------------------------------------------------ client claims
\* This step starts request r.
Sends(r) == request[r].state = "none" /\ request'[r].state = "sent"

\* This step settles request r in the screen.
Settles(r) == request[r].state = "served" /\ request'[r].state = "settled"

Succeeded(r) == request[r].state = "settled" /\ request[r].result.kind = "ok"

VoiceRequests(k) ==
    {r \in Requests : request[r].via = "voice" /\ request[r].recording = k}

\* C25: the screen has at most one request whose promise is not settled,
\* and no step starts a request while isLoading is true.
C25_OneInFlight ==
    /\ [](Cardinality(Outstanding) <= 1)
    /\ [][screen.isLoading => \A r \in Requests : ~Sends(r)]_vars

\* C26: a request started after a request of the screen has succeeded
\* carries the sessionId that request returned.
C26_SameSession ==
    [][\A r, q \in Requests :
          (Sends(r) /\ Succeeded(q)) =>
              request'[r].sessionId = request[q].result.sessionId]_vars

\* C27: the step that starts a request appends the user bubble of its text
\* and nothing else; the step that settles it appends one ai bubble, with
\* the response of the server on success and the apology on an error, and
\* leaves isLoading false and aiStatus idle; no other step changes the
\* list; and with no request outstanding the screen is neither loading nor
\* thinking.
C27_BubblesAndReset ==
    /\ [](Outstanding = {} => ~screen.isLoading /\ screen.aiStatus # "thinking")
    /\ [][/\ \A r \in Requests :
                /\ Sends(r) =>
                      screen'.messages =
                          Append(screen.messages, Bubble("user", request'[r].content, r))
                /\ Settles(r) =>
                      /\ screen'.messages =
                            Append(screen.messages,
                                   Bubble("ai",
                                          IF request[r].result.kind = "ok"
                                          THEN request[r].result.response
                                          ELSE Apology, r))
                      /\ ~screen'.isLoading
                      /\ screen'.aiStatus = "idle"
          /\ screen'.messages # screen.messages =>
                \E r \in Requests : Sends(r) \/ Settles(r)]_vars

C27_Witness ==
    \E r, q \in Requests :
        /\ Succeeded(r)
        /\ request[q].state = "settled" /\ request[q].result.kind = "error"
        /\ request[r].via = "text" /\ request[q].via = "voice"
        /\ Len(screen.messages) = 5
        /\ \E i \in 1..Len(screen.messages) : screen.messages[i] = Bubble("ai", Apology, q)
        /\ ~screen.isLoading
        /\ screen.aiStatus = "idle"

====
